---- MODULE Spec2Model ----
(***************************************************************************)
(* A model of the ski-scraper scraping layer (ski_scraper/scraper.py), its *)
(* typed records (ski_scraper/models.py) and the detail endpoint of the    *)
(* HTTP API (ski_scraper/api.py).                                          *)
(*                                                                         *)
(* Five state machines share the module, one per specification:            *)
(*   SpecFetch   get_page_content: the retry loop of the page fetcher      *)
(*   SpecList    list_competitions over a calendar page, with the row      *)
(*               extractors parse_competition_row, parse_disciplines,      *)
(*               parse_gender and parse_status                             *)
(*   SpecDetail  get_competition -> scrape_competition_detail              *)
(*   SpecResults scrape_results from line 285 on: the loop over the rows   *)
(*               of a results page                                         *)
(*   SpecDisciplines  parse_disciplines on texts joined from its tokens    *)
(* Each specification leaves the variables of the others at their idle     *)
(* values.                                                                 *)
(***************************************************************************)
EXTENDS Integers, Sequences, FiniteSets, TLC

VARIABLES
    \* ---- get_page_content ------------------------------------------------
    session,     \* "caller": a session was passed in; "none": session is None;
                 \* "own": the session opened at line 20
    attempt,     \* the loop variable of line 24 (0-based)
    fetchPc,     \* "idle" | "call" | "try" | "returned" | "raised"
    served,      \* what session.get produced on each attempt so far
    delays,      \* the arguments of the asyncio.sleep calls made so far
    fetched,     \* the fetch's outcome once fetchPc is "returned" or "raised"
    \* ---- parse_disciplines -----------------------------------------------
    parts,       \* how the argument was put together: tokens and separators
    text,        \* the argument, a sequence of characters
    discPc,      \* "idle" | "scan" | "returned"
    scanned,     \* how many vocabulary tokens the loop of line 38 has tried
    disciplines, \* the list built at lines 37-40
    \* ---- list_competitions -----------------------------------------------
    page,        \* the rows soup.select('.table-row') finds on the calendar page
    listPc,      \* "idle" | "fetch" | "rows" | "returned" | "raised"
    rowPos,      \* the number of rows the loop of line 354 has handled
    competitions, \* the list built at lines 353-357
    \* ---- scrape_results ---------------------------------------------------
    discipline,  \* the argument: a member name of models.Discipline
    result_rows, \* the rows line 283 selects from the results page
    resPc,       \* "idle" | "count" | "rows" | "returned"
    resPos,      \* the number of rows the loop of line 290 has handled
    results,     \* the list built at lines 288-332, or None (line 286)
    \* ---- get_competition / scrape_competition_detail -----------------------
    competition_id, \* the path parameter
    detail_page, \* the event-details page the site serves for it
    listings,    \* the calendar rows the site serves per category code
    detailPc,    \* "idle" | "fetch" | "races" | "extras" | "resolve" |
                 \* "returned" | "raised"
    racePos,     \* the number of race rows the loop of line 125 has handled
    race_date,   \* the local race_date: "unbound" until a row assigns it
    races,       \* the list built at lines 119-207
    handled,     \* per race row handled: how its iteration ended
    requests,    \* the pages asked of get_page_content, in order
    extras,      \* delegates, broadcasters and documents once extracted
    catPos,      \* the number of category listings tried (lines 250-260)
    competition, \* the local competition of lines 251-261
    raised,      \* the exception that left scrape_competition_detail
    response     \* what get_competition hands to the HTTP caller

fetchVars == <<session, attempt, fetchPc, served, delays, fetched>>
discVars == <<parts, text, discPc, scanned, disciplines>>
listVars == <<page, listPc, rowPos, competitions>>
resVars == <<discipline, result_rows, resPc, resPos, results>>

detailVars ==
    <<competition_id, detail_page, listings, detailPc, racePos, race_date, races,
      handled, requests, extras, catPos, competition, raised, response>>

vars == <<fetchVars, discVars, listVars, resVars, detailVars>>

\* what each state machine leaves alone
notFetch == <<discVars, listVars, resVars, detailVars>>
notDisc == <<fetchVars, listVars, resVars, detailVars>>
notList == <<fetchVars, discVars, resVars, detailVars>>
notRes == <<fetchVars, discVars, listVars, detailVars>>
notDetail == <<fetchVars, discVars, listVars, resVars>>

(***************************************************************************)
(* Common values                                                           *)
(***************************************************************************)
None == [kind |-> "None"]

(***************************************************************************)
(* get_page_content (scraper.py 17-33)                                     *)
(***************************************************************************)
max_retries == 3

\* Exceptions lines 26-28 can raise.  Those of the first set are subclasses
\* of aiohttp.ClientError: a connection that fails, the ClientResponseError
\* raise_for_status (line 27) raises for a status of 400 or more, and the
\* InvalidURL session.get raises for a malformed URL.  UnicodeDecodeError,
\* which response.text() (line 28) raises for a body it cannot decode, is not.
ClientErrorClasses ==
    {"ClientConnectorError", "ClientResponseError 503", "ClientResponseError 404",
     "InvalidURL"}
OtherErrorClasses == {"UnicodeDecodeError"}
ErrorClasses == ClientErrorClasses \cup OtherErrorClasses

\* except Exception instead of except aiohttp.ClientError
IsClientError_CatchAll(cls) == TRUE

\* the except clause of line 29
IsClientError(cls) == cls \in ClientErrorClasses

\* sleeping the base delay on every retry
Backoff_Constant(a) == 1

\* the argument of asyncio.sleep at line 33
Backoff(a) == 1 * (a + 1)

\* the test of line 30
IsLastAttempt(a) == a = max_retries - 1

\* What one session.get can produce on attempt number n (1-based): the body
\* the server sends on that attempt, or an exception.
Served(n) ==
    {[kind |-> "body", cls |-> "", at |-> n]}
    \cup {[kind |-> "error", cls |-> c, at |-> n] : c \in ErrorClasses}

FetchIdle ==
    /\ session = "none"
    /\ attempt = 0
    /\ fetchPc = "idle"
    /\ served = <<>>
    /\ delays = <<>>
    /\ fetched = None

InitFetch ==
    /\ session \in {"caller", "none"}
    /\ attempt = 0
    /\ fetchPc = "call"
    /\ served = <<>>
    /\ delays = <<>>
    /\ fetched = None

\* lines 19-21: no session given, open one and call again with it
OpenSession ==
    /\ fetchPc = "call"
    /\ session = "none"
    /\ session' = "own"
    /\ UNCHANGED <<attempt, fetchPc, served, delays, fetched>>
    /\ UNCHANGED notFetch

\* lines 23-24: a session is at hand, enter the loop
EnterLoop ==
    /\ fetchPc = "call"
    /\ session # "none"
    /\ fetchPc' = "try"
    /\ UNCHANGED <<session, attempt, served, delays, fetched>>
    /\ UNCHANGED notFetch

\* lines 25-28: the attempt succeeds and its body is returned
AttemptReturns ==
    /\ fetchPc = "try"
    /\ attempt < max_retries
    /\ \E r \in Served(attempt + 1) :
        /\ r.kind = "body"
        /\ served' = Append(served, r)
        /\ fetched' = r
    /\ fetchPc' = "returned"
    /\ UNCHANGED <<session, attempt, delays>>
    /\ UNCHANGED notFetch

\* lines 29-33: a ClientError before the last attempt: warn, sleep, loop
AttemptRetries ==
    /\ fetchPc = "try"
    /\ attempt < max_retries
    /\ \E r \in Served(attempt + 1) :
        /\ r.kind = "error"
        /\ IsClientError(r.cls)
        /\ ~IsLastAttempt(attempt)
        /\ served' = Append(served, r)
    /\ delays' = Append(delays, Backoff(attempt))
    /\ attempt' = attempt + 1
    /\ UNCHANGED <<session, fetchPc, fetched>>
    /\ UNCHANGED notFetch

\* lines 29-31: a ClientError on the last attempt is re-raised; any other
\* exception is not caught by line 29 and leaves the function at once
AttemptRaises ==
    /\ fetchPc = "try"
    /\ attempt < max_retries
    /\ \E r \in Served(attempt + 1) :
        /\ r.kind = "error"
        /\ ~IsClientError(r.cls) \/ IsLastAttempt(attempt)
        /\ served' = Append(served, r)
        /\ fetched' = r
    /\ fetchPc' = "raised"
    /\ UNCHANGED <<session, attempt, delays>>
    /\ UNCHANGED notFetch

NextFetch ==
    \/ OpenSession
    \/ EnterLoop
    \/ AttemptReturns
    \/ AttemptRetries
    \/ AttemptRaises

(***************************************************************************)
(* Texts.  A text is a sequence of one-character strings.                  *)
(***************************************************************************)
\* s occurs in t as a contiguous substring: Python's  s in t
Contains(t, s) ==
    \E i \in 0..(Len(t) - Len(s)) :
        \A j \in 1..Len(s) : t[i + j] = s[j]

(***************************************************************************)
(* models.Discipline (models.py 11-19) and parse_disciplines               *)
(* (scraper.py 35-41)                                                      *)
(***************************************************************************)
\* member name |-> value
Discipline ==
    [SLALOM |-> "SL", GIANT_SLALOM |-> "GS", SUPER_G |-> "SG", DOWNHILL |-> "DH",
     SLALOM_TRAINING |-> "SLT", GIANT_SLALOM_TRAINING |-> "GST",
     SUPER_G_TRAINING |-> "SGT", DOWNHILL_TRAINING |-> "DHT"]

DisciplineNames == DOMAIN Discipline

\* the list literal of line 38, each token with its characters
Vocabulary == << <<"S", "L">>, <<"G", "S">>, <<"S", "G">>, <<"D", "H">> >>

\* models.Discipline(disc): the member whose value is the token
DisciplineOf(tok) ==
    CHOOSE n \in DisciplineNames : Discipline[n] = tok[1] \o tok[2]

\* a whole-word match instead of a substring test
TokenFound_FirstOnly(t, tok) == Len(t) >= 2 /\ SubSeq(t, 1, 2) = tok

\* the test of line 39
TokenFound(t, tok) == Contains(t, tok)

\* lines 38-40 for the token at position k of the vocabulary
ScanToken(t, k, acc) ==
    IF TokenFound(t, Vocabulary[k]) THEN Append(acc, DisciplineOf(Vocabulary[k])) ELSE acc

RECURSIVE ScanFrom(_, _, _)
ScanFrom(t, k, acc) ==
    IF k > Len(Vocabulary) THEN acc ELSE ScanFrom(t, k + 1, ScanToken(t, k, acc))

\* parse_disciplines(text)
parse_disciplines(t) == ScanFrom(t, 1, <<>>)

\* ---- the texts parse_disciplines is run on ------------------------------
\* what may stand between two tokens; the empty separator and a separator
\* that is itself a letter are among them
Separators == {<<>>, <<" ">>, <<"/">>, <<",", " ">>, <<"G">>}

VocabularyLetters == {"S", "L", "G", "D", "H"}

\* sequences of distinct vocabulary positions: a subset of the tokens in
\* some order
TokenOrders ==
    {ts \in UNION {[1..n -> 1..Len(Vocabulary)] : n \in 0..Len(Vocabulary)} :
        \A i, j \in 1..Len(ts) : i # j => ts[i] # ts[j]}

RECURSIVE Join(_, _)
\* tokens ts joined with separators ss (one per gap)
Join(ts, ss) ==
    IF ts = <<>> THEN <<>>
    ELSE IF Len(ts) = 1 THEN Vocabulary[ts[1]]
    ELSE Vocabulary[ts[1]] \o ss[1] \o Join(Tail(ts), Tail(ss))

DiscIdle ==
    /\ parts = [tokens |-> <<>>, seps |-> <<>>]
    /\ text = <<>>
    /\ discPc = "idle"
    /\ scanned = 0
    /\ disciplines = <<>>

InitDisc ==
    /\ \E ts \in TokenOrders :
        \E ss \in [1..(IF Len(ts) = 0 THEN 0 ELSE Len(ts) - 1) -> Separators] :
            /\ parts = [tokens |-> ts, seps |-> ss]
            /\ text = Join(ts, ss)
    /\ discPc = "scan"
    /\ scanned = 0
    /\ disciplines = <<>>

\* one iteration of the loop of lines 38-40
ScanVocabulary ==
    /\ discPc = "scan"
    /\ scanned < Len(Vocabulary)
    /\ disciplines' = ScanToken(text, scanned + 1, disciplines)
    /\ scanned' = scanned + 1
    /\ UNCHANGED <<parts, text, discPc>>
    /\ UNCHANGED notDisc

\* line 41
ReturnDisciplines ==
    /\ discPc = "scan"
    /\ scanned = Len(Vocabulary)
    /\ discPc' = "returned"
    /\ UNCHANGED <<parts, text, scanned, disciplines>>
    /\ UNCHANGED notDisc

NextDisc ==
    \/ ScanVocabulary
    \/ ReturnDisciplines

(***************************************************************************)
(* Row extractors (scraper.py 43-62) and parse_competition_row (64-110)    *)
(*                                                                         *)
(* A calendar row is described by the fragments the selectors can find:    *)
(*   id        the row's id attribute, "" when the attribute is absent     *)
(*   link      "both": the event-details link and the anchor after it;     *)
(*             "nodate": the link without the anchor; "nolink": neither    *)
(*   live      the date anchor's text ends in "live"                       *)
(*   location, country   the fragment is there                             *)
(*   cats      the texts of the '.split-row_bordered .clip' cells          *)
(*   gender    [present, men, women]: the '.gender' fragment and the       *)
(*             '.gender__item_m' / '.gender__item_l' markers in it         *)
(*   cancelled a '.cancelled' element is there                             *)
(*   status    [present, items]: the '.status' fragment and, per           *)
(*             '.status__item', whether it is selected                     *)
(***************************************************************************)
Ok(v) == [kind |-> "ok", value |-> v, cls |-> ""]
Raise(c) == [kind |-> "error", value |-> None, cls |-> c]

\* the fallback of line 52 turned into MEN
parse_gender_DefaultMen(element) ==
    IF element.men /\ element.women THEN "BOTH"
    ELSE IF element.women THEN "WOMEN"
    ELSE "MEN"

\* parse_gender(element), lines 45-52
parse_gender(element) ==
    LET has_men == element.men
        has_women == element.women
    IN  IF has_men /\ has_women THEN "BOTH"
        ELSE IF has_men THEN "MEN"
        ELSE "WOMEN"

\* parse_status(element), lines 56-62: status_items[3] needs four items
parse_status(element) ==
    LET status_items == element.items
    IN  IF Len(status_items) < 4 THEN Raise("IndexError")
        ELSE Ok([data_available |-> status_items[1],
                 pdf_available |-> status_items[2],
                 changes |-> status_items[3],
                 cancelled |-> status_items[4]])

\* parse_competition_row(row), lines 66-110: the first fragment the code
\* reaches that is missing raises, and line 110 re-raises
parse_competition_row(row) ==
    IF row.id = "" THEN Raise("KeyError")                       \* line 67
    ELSE IF row.link # "both" THEN Raise("AttributeError")      \* line 74
    ELSE IF ~row.location THEN Raise("AttributeError")          \* line 78
    ELSE IF ~row.country THEN Raise("AttributeError")           \* line 79
    ELSE IF Len(row.cats) < 1 THEN Raise("IndexError")          \* line 83
    ELSE IF Len(row.cats) < 2 THEN Raise("IndexError")          \* line 84
    ELSE IF ~row.gender.present THEN Raise("AttributeError")    \* line 87, 45
    ELSE IF ~row.status.present THEN Raise("AttributeError")    \* line 93, 56
    ELSE IF parse_status(row.status).kind = "error"
         THEN parse_status(row.status)                          \* line 93, 61
    ELSE Ok([event_id |-> row.id,
             is_live |-> row.live,
             category |-> row.cats[1],
             discipline |-> parse_disciplines(row.cats[2]),
             gender |-> parse_gender(row.gender),
             cancelled |-> row.cancelled,
             status |-> parse_status(row.status).value])

(***************************************************************************)
(* list_competitions (scraper.py 347-362)                                  *)
(***************************************************************************)
MaxRows == 2

EventIds == {"55579", "55580"}

\* a row with every fragment parse_competition_row asks for
CompleteRow(id, men, women) ==
    [id |-> id, link |-> "both", live |-> FALSE, location |-> TRUE, country |-> TRUE,
     cats |-> << <<"W", "C">>, <<"G", "S">> >>,
     gender |-> [present |-> TRUE, men |-> men, women |-> women],
     cancelled |-> FALSE,
     status |-> [present |-> TRUE, items |-> <<TRUE, TRUE, FALSE, FALSE>>]]

CompleteRows == {CompleteRow(id, m, w) : id \in EventIds, m \in BOOLEAN, w \in BOOLEAN}

\* rows with one fragment missing or short
DefectiveRows ==
    LET r == CompleteRow("55579", TRUE, FALSE)
    IN  {[r EXCEPT !.id = ""],
         [r EXCEPT !.link = "nolink"],
         [r EXCEPT !.link = "nodate"],
         [r EXCEPT !.location = FALSE],
         [r EXCEPT !.country = FALSE],
         [r EXCEPT !.cats = <<>>],
         [r EXCEPT !.cats = << <<"W", "C">> >>],
         [r EXCEPT !.gender = [present |-> FALSE, men |-> FALSE, women |-> FALSE]],
         [r EXCEPT !.status = [present |-> FALSE, items |-> <<>>]],
         [r EXCEPT !.status = [present |-> TRUE, items |-> <<TRUE, TRUE, FALSE>>]]}

\* other rows the site shows: a live event, a cancelled one, a combined listing
OtherRows ==
    LET r == CompleteRow("55580", FALSE, TRUE)
    IN  {[r EXCEPT !.live = TRUE],
         [r EXCEPT !.cancelled = TRUE, !.status.items = <<FALSE, FALSE, TRUE, TRUE>>],
         [r EXCEPT !.cats = << <<"W", "C">>, <<"D", "H", " ", "S", "G">> >>]}

RowShapes == CompleteRows \cup DefectiveRows \cup OtherRows

Pages == UNION {[1..n -> RowShapes] : n \in 0..MaxRows}

\* the loop continues after a failed row but drops what it has collected
ListRow_ResetOnError(row, acc) ==
    IF parse_competition_row(row).kind = "ok"
    THEN Append(acc, parse_competition_row(row).value)
    ELSE <<>>

\* lines 355-360: one iteration of the loop over competition_rows
ListRow(row, acc) ==
    IF parse_competition_row(row).kind = "ok"
    THEN Append(acc, parse_competition_row(row).value)
    ELSE acc

RECURSIVE ListRows(_, _)
ListRows(rows, acc) ==
    IF rows = <<>> THEN acc ELSE ListRows(Tail(rows), ListRow(Head(rows), acc))

\* list_competitions once its page has been fetched: lines 350-362
list_competitions(rows) == ListRows(rows, <<>>)

ListIdle ==
    /\ page = <<>>
    /\ listPc = "idle"
    /\ rowPos = 0
    /\ competitions = <<>>

InitList ==
    /\ page \in Pages
    /\ listPc = "fetch"
    /\ rowPos = 0
    /\ competitions = <<>>

\* line 349: get_page_content returns the calendar page
ListFetched ==
    /\ listPc = "fetch"
    /\ listPc' = "rows"
    /\ UNCHANGED <<page, rowPos, competitions>>
    /\ UNCHANGED notList

\* line 349: get_page_content raises; nothing catches it
ListFetchRaises ==
    /\ listPc = "fetch"
    /\ listPc' = "raised"
    /\ UNCHANGED <<page, rowPos, competitions>>
    /\ UNCHANGED notList

\* lines 354-360: the next row
ListNextRow ==
    /\ listPc = "rows"
    /\ rowPos < Len(page)
    /\ competitions' = ListRow(page[rowPos + 1], competitions)
    /\ rowPos' = rowPos + 1
    /\ UNCHANGED <<page, listPc>>
    /\ UNCHANGED notList

\* line 362
ListReturns ==
    /\ listPc = "rows"
    /\ rowPos = Len(page)
    /\ listPc' = "returned"
    /\ UNCHANGED <<page, rowPos, competitions>>
    /\ UNCHANGED notList

NextList ==
    \/ ListFetched
    \/ ListFetchRaises
    \/ ListNextRow
    \/ ListReturns

(***************************************************************************)
(* scrape_results (scraper.py 272-337)                                     *)
(*                                                                         *)
(* A result row is described by                                            *)
(*   ncols     the number of cells '.g-row > .g-row > div' selects; the    *)
(*             text of the cell at (0-based) index i is written Cell(i)    *)
(*   rank      the number in cell 0, 0 standing for a text that is no      *)
(*             number ("DNF")                                              *)
(*   athlete   the row's href carries a competitorid                       *)
(*   name, nation   cells 3 and 5 hold the fragment asked for              *)
(*   fis, cup  "num" | "empty" | "text": what the points cells hold        *)
(***************************************************************************)
Cell(i) == [kind |-> "cell", index |-> i]

\* float(text or 0), int(text or 0) at lines 318-319: an empty cell is zero
NumberAt(i, content) ==
    IF content = "empty" THEN [kind |-> "zero", index |-> i] ELSE Cell(i)

TwoRunDisciplines == {"SLALOM", "GIANT_SLALOM"}

\* the members line 275 names
TeamDisciplines == {"TEAM_COMBINED", "TEAM_PARALLEL"}

\* line 306: the index of the cup points cell, -1 standing for None
CupIndex(has_two_runs, ncols) ==
    IF ncols > 9 THEN (IF has_two_runs THEN 11 ELSE 9) ELSE -1

\* lines 297-307, -1 standing for None
col_indexes(has_two_runs, ncols) ==
    [rank |-> 0, name |-> 3, nation |-> 5,
     run1 |-> IF has_two_runs THEN 6 ELSE -1,
     run2 |-> IF has_two_runs THEN 7 ELSE -1,
     total |-> IF has_two_runs THEN 8 ELSE 6,
     diff |-> IF has_two_runs THEN 9 ELSE 7,
     fis_points |-> IF has_two_runs THEN 10 ELSE 8,
     cup_points |-> CupIndex(has_two_runs, ncols)]

\* lines 291-335 for one row: the Result, or an error for a row that is
\* dropped (line 293, or the except clause of line 333)
ParseResultRow(row, disc) ==
    LET has_two_runs == disc \in TwoRunDisciplines
        ix == col_indexes(has_two_runs, row.ncols)
    IN  IF row.ncols < 7 THEN Raise("TooFewColumns")                    \* 292
        ELSE IF row.rank = 0 THEN Raise("ValueError")                   \* 311
        ELSE IF ~row.name THEN Raise("AttributeError")                  \* 312
        ELSE IF ~row.nation THEN Raise("AttributeError")                \* 313
        ELSE IF ix.total >= row.ncols THEN Raise("IndexError")          \* 316
        ELSE IF ix.diff >= row.ncols THEN Raise("IndexError")           \* 317
        ELSE IF ix.fis_points >= row.ncols THEN Raise("IndexError")     \* 318
        ELSE IF row.fis = "text" THEN Raise("ValueError")               \* 318
        ELSE IF ix.cup_points >= row.ncols THEN Raise("IndexError")     \* 319
        ELSE IF ix.cup_points > 0 /\ row.cup = "text" THEN Raise("ValueError")
        ELSE IF ~row.athlete THEN Raise("ValidationError")              \* 321-322
        ELSE Ok([rank |-> row.rank,
                 run1 |-> IF ix.run1 > 0 THEN Cell(ix.run1) ELSE None,
                 run2 |-> IF ix.run2 > 0 THEN Cell(ix.run2) ELSE None,
                 total |-> Cell(ix.total),
                 diff |-> Cell(ix.diff),
                 fis_points |-> NumberAt(ix.fis_points, row.fis),
                 cup_points |-> IF ix.cup_points > 0
                                THEN NumberAt(ix.cup_points, row.cup) ELSE None])

\* one iteration of the loop of line 290
ResultRow(row, disc, acc) ==
    IF ParseResultRow(row, disc).kind = "ok"
    THEN Append(acc, ParseResultRow(row, disc).value)
    ELSE acc

RECURSIVE ResultRows(_, _, _)
ResultRows(rows, disc, acc) ==
    IF rows = <<>> THEN acc ELSE ResultRows(Tail(rows), disc, ResultRow(Head(rows), disc, acc))

\* scrape_results(race_id, discipline, session), given what get_page_content
\* produces for the results page (reply): [out, requested], out the value
\* returned or the exception raised, requested whether the page was asked for.
\* Line 275 evaluates models.Discipline.TEAM_COMBINED before anything else,
\* which is an AttributeError when the enum has no such member.
scrape_results(disc, reply) ==
    IF ~(TeamDisciplines \subseteq DisciplineNames)
    THEN [out |-> Raise("AttributeError"), line |-> 275, requested |-> FALSE]
    ELSE IF disc \in TeamDisciplines
    THEN [out |-> Ok(None), line |-> 276, requested |-> FALSE]
    ELSE IF reply.kind = "error"
    THEN [out |-> Raise(reply.cls), line |-> 279, requested |-> TRUE]
    ELSE IF Len(reply.rows) < 2
    THEN [out |-> Ok(None), line |-> 286, requested |-> TRUE]
    ELSE [out |-> Ok(ResultRows(reply.rows, disc, <<>>)), line |-> 337, requested |-> TRUE]

MaxResultRows == 3

\* a row with a rank, an athlete, a name and a nation, and numbers for points
FullRow(ncols) ==
    [ncols |-> ncols, rank |-> 1, athlete |-> TRUE, name |-> TRUE, nation |-> TRUE,
     fis |-> "num", cup |-> "num"]

ResultRowShapes ==
    {FullRow(n) : n \in {6, 9, 10, 11, 12}}
    \cup {[FullRow(12) EXCEPT !.rank = 0],
          [FullRow(12) EXCEPT !.athlete = FALSE],
          [FullRow(12) EXCEPT !.fis = "empty", !.cup = "empty"],
          [FullRow(12) EXCEPT !.fis = "text"]}

\* tables whose k-th row is ranked k (or holds a text for its rank)
ResultTables ==
    UNION {
        {[k \in 1..n |-> [f[k] EXCEPT !.rank = IF f[k].rank = 0 THEN 0 ELSE k]] :
            f \in [1..n -> ResultRowShapes]} : n \in 0..MaxResultRows}

\* the disciplines a results page is parsed for
RacedDisciplines == {"SLALOM", "GIANT_SLALOM", "SUPER_G", "DOWNHILL"}

ResIdle ==
    /\ discipline = ""
    /\ result_rows = <<>>
    /\ resPc = "idle"
    /\ resPos = 0
    /\ results = None

\* the state after line 283: the page is parsed and its rows are selected.
\* (SpecResults runs lines 285-337 on their own: as scrape_results shows,
\* with the enum of models.py 11-19 a call does not get past line 275.)
InitRes ==
    /\ discipline \in RacedDisciplines
    /\ result_rows \in ResultTables
    /\ resPc = "count"
    /\ resPos = 0
    /\ results = None

\* lines 285-286: fewer than two rows, no results yet
ResultsNotAvailable ==
    /\ resPc = "count"
    /\ Len(result_rows) < 2
    /\ resPc' = "returned"
    /\ UNCHANGED <<discipline, result_rows, resPos, results>>
    /\ UNCHANGED notRes

\* lines 285-288: two rows or more, start the list
ResultsBegin ==
    /\ resPc = "count"
    /\ Len(result_rows) >= 2
    /\ resPc' = "rows"
    /\ results' = <<>>
    /\ UNCHANGED <<discipline, result_rows, resPos>>
    /\ UNCHANGED notRes

\* lines 290-335: the next row
ResultsNextRow ==
    /\ resPc = "rows"
    /\ resPos < Len(result_rows)
    /\ results' = ResultRow(result_rows[resPos + 1], discipline, results)
    /\ resPos' = resPos + 1
    /\ UNCHANGED <<discipline, result_rows, resPc>>
    /\ UNCHANGED notRes

\* line 337
ResultsReturn ==
    /\ resPc = "rows"
    /\ resPos = Len(result_rows)
    /\ resPc' = "returned"
    /\ UNCHANGED <<discipline, result_rows, resPos, results>>
    /\ UNCHANGED notRes

NextRes ==
    \/ ResultsNotAvailable
    \/ ResultsBegin
    \/ ResultsNextRow
    \/ ResultsReturn

(***************************************************************************)
(* scrape_competition_detail (scraper.py 112-270): the race rows           *)
(*                                                                         *)
(* A race row is described by                                              *)
(*   codex     "link": a '.link_theme_dark' label; "plain": a '.g-md-2'    *)
(*             column; "missing": neither                                  *)
(*   date      "datetime": date and time fragments; "date": the date       *)
(*             alone; "bad": a date strptime rejects; "none": no fragment  *)
(*   label     the discipline text, as its words                           *)
(*   women     the gender marker is the women's                            *)
(*   run_link  "raceid": the 'a.hidden-xs' link carries raceid=<digits>;   *)
(*             "noraceid": it does not; "missing": there is no such link   *)
(*   runs      the sub-rows of the link: "header", "1st", "2nd", "notime"  *)
(*             (a run without a time fragment), "badnumber" (a run whose   *)
(*             ordinal does not start with a digit)                        *)
(***************************************************************************)
Exc(cls, line) == [cls |-> cls, line |-> line, status_code |-> 0, detail |-> ""]

\* HTTPException(status_code=404, detail="Competition not found")
HTTPException404(line) ==
    [cls |-> "HTTPException", line |-> line, status_code |-> 404,
     detail |-> "Competition not found"]

\* str.upper() on the words the labels are made of
UpperOf ==
    [Slalom |-> "SLALOM", Giant |-> "GIANT", Super |-> "SUPER", G |-> "G",
     Downhill |-> "DOWNHILL", Training |-> "TRAINING", Team |-> "TEAM",
     Combined |-> "COMBINED", Alpine |-> "ALPINE"]

RECURSIVE NormalizedName(_)
\* discipline_text.replace(" ", "_").upper(), line 148
NormalizedName(label) ==
    IF label = <<>> THEN ""
    ELSE IF Len(label) = 1 THEN UpperOf[label[1]]
    ELSE UpperOf[label[1]] \o "_" \o NormalizedName(Tail(label))

\* lines 146-150: the member whose name the text normalizes to, "" for None
MatchDiscipline(label) ==
    IF NormalizedName(label) \in DisciplineNames THEN NormalizedName(label) ELSE ""

\* line 156: discipline_text.endswith("Training")
IsTrainingLabel(label) == label # <<>> /\ label[Len(label)] = "Training"

RunNumbers == [header |-> 0, notime |-> 0, badnumber |-> 0, 1st |-> 1, 2nd |-> 2]

RECURSIVE ParseRuns(_, _)
\* lines 167-190: the Run numbers, or the exception a sub-row raises
ParseRuns(run_els, acc) ==
    IF run_els = <<>> THEN Ok(acc)
    ELSE IF Head(run_els) = "header" THEN ParseRuns(Tail(run_els), acc)     \* 171-172
    ELSE IF Head(run_els) = "notime" THEN ParseRuns(Tail(run_els), acc)     \* 182-183
    ELSE IF Head(run_els) = "badnumber" THEN Raise("ValueError")            \* 186
    ELSE ParseRuns(Tail(run_els), Append(acc, RunNumbers[Head(run_els)]))

\* how one iteration of the loop of line 125 ends
RowEnd(outcome, exc, date, race, called, requested) ==
    [outcome |-> outcome, exc |-> exc, race_date |-> date, race |-> race,
     called |-> called, requested |-> requested]

\* lines 125-207 for one race row, with race_date as the previous rows left
\* it and reply what get_page_content produces if the results page is asked
\* for.  outcome is "appended", "skipped" (line 154) or "raised": nothing in
\* the loop catches an exception.
HandleRaceRow(row, prev_date, reply) ==
    LET date == IF row.date = "none" THEN prev_date ELSE row.date
        name == MatchDiscipline(row.label)
        is_training == IsTrainingLabel(row.label)
        race_id == IF row.run_link = "raceid" THEN "raceid" ELSE "None"
        runs == ParseRuns(row.runs, <<>>)
        sr == scrape_results(name, reply)
        race == [race_id |-> race_id, codex |-> row.codex, date |-> date,
                 discipline |-> name, is_training |-> is_training,
                 gender |-> IF row.women THEN "WOMEN" ELSE "MEN",
                 runs |-> runs.value,
                 results |-> IF is_training THEN None ELSE sr.out.value]
    IN  IF row.codex = "missing"
        THEN RowEnd("raised", Exc("AttributeError", 131), prev_date, None, FALSE, FALSE)
        ELSE IF row.date = "bad"
        THEN RowEnd("raised", Exc("ValueError", 138), prev_date, None, FALSE, FALSE)
        ELSE IF name = ""
        THEN RowEnd("skipped", None, date, None, FALSE, FALSE)
        ELSE IF row.run_link = "missing"
        THEN RowEnd("raised", Exc("TypeError", 165), date, None, FALSE, FALSE)
        ELSE IF runs.kind = "error"
        THEN RowEnd("raised", Exc(runs.cls, 186), date, None, FALSE, FALSE)
        ELSE IF date = "unbound"
        THEN RowEnd("raised", Exc("UnboundLocalError", 199), date, None, FALSE, FALSE)
        ELSE IF ~is_training /\ sr.out.kind = "error"
        THEN RowEnd("raised", Exc(sr.out.cls, sr.line), date, None, TRUE, sr.requested)
        ELSE IF race_id = "None"
        THEN RowEnd("raised", Exc("ValidationError", 196), date, None,
                    ~is_training, ~is_training /\ sr.requested)
        ELSE RowEnd("appended", None, date, race,
                    ~is_training, ~is_training /\ sr.requested)

(***************************************************************************)
(* scrape_competition_detail: delegates, broadcasters, documents (209-247) *)
(***************************************************************************)
RECURSIVE Delegates(_, _)
\* lines 213-223 over td_rows: rows of fewer than four columns are passed
\* over; a row without the nation fragment raises
Delegates(rows, acc) ==
    IF rows = <<>> THEN Ok(acc)
    ELSE IF Head(rows).ncols < 4 THEN Delegates(Tail(rows), acc)
    ELSE IF ~Head(rows).nation THEN Raise("AttributeError")
    ELSE Delegates(Tail(rows), Append(acc, Head(rows).td_id))

RECURSIVE Broadcasters(_, _)
\* lines 229-238: the countries fragment (line 230) and the link (line 234)
\* are both read unconditionally; cls names the line that raised
Broadcasters(els, acc) ==
    IF els = <<>> THEN Ok(acc)
    ELSE IF ~Head(els).countries THEN Raise("230")
    ELSE IF ~Head(els).link THEN Raise("234")
    ELSE Broadcasters(Tail(els), Append(acc, Head(els).name))

RECURSIVE Documents(_, _)
\* lines 242-247: an item counts when it has both a name and a link
Documents(items, acc) ==
    IF items = <<>> THEN acc
    ELSE IF Head(items).name /\ Head(items).link
    THEN Documents(Tail(items), acc \cup {Head(items).title})
    ELSE Documents(Tail(items), acc)

\* lines 209-247
ExtractExtras(pg) ==
    IF Delegates(pg.td_rows, <<>>).kind = "error"
    THEN [kind |-> "error", exc |-> Exc("AttributeError", 221), value |-> None]
    ELSE IF Broadcasters(pg.broadcasters, <<>>).kind = "error"
    THEN [kind |-> "error", value |-> None,
          exc |-> Exc("AttributeError",
                      IF Broadcasters(pg.broadcasters, <<>>).cls = "230" THEN 230 ELSE 234)]
    ELSE [kind |-> "ok", exc |-> None,
          value |-> [kind |-> "extras",
                     technical_delegates |-> Delegates(pg.td_rows, <<>>).value,
                     broadcasters |-> Broadcasters(pg.broadcasters, <<>>).value,
                     documents |-> Documents(pg.documents, {})]]

(***************************************************************************)
(* get_competition (api.py 22-30) over scrape_competition_detail           *)
(***************************************************************************)
MaxRaces == 2

\* the Olympic listing tried before the World Championships listing
Categories_OlympicsBeforeWorlds == <<"WC", "OWG", "WSC">>

\* the categories tried, in order: the default of line 347, then lines 255
\* and 259
Categories == <<"WC", "WSC", "OWG">>

CategoryText == [WC |-> <<"W", "C">>, WSC |-> <<"W", "S", "C">>, OWG |-> <<"O", "W", "G">>]

\* a training race with every fragment the loop asks for
TrainingRow ==
    [codex |-> "link", date |-> "datetime", label |-> <<"Downhill", "Training">>,
     women |-> FALSE, run_link |-> "raceid", runs |-> <<"header", "1st">>]

RaceRowShapes ==
    {TrainingRow,
     [TrainingRow EXCEPT !.codex = "plain", !.date = "date", !.women = TRUE,
                         !.runs = <<"header", "notime", "1st">>],
     [TrainingRow EXCEPT !.label = <<"Slalom">>, !.runs = <<"header", "1st", "2nd">>],
     [TrainingRow EXCEPT !.label = <<"Team", "Combined">>],
     [TrainingRow EXCEPT !.label = <<"Alpine", "Combined">>],
     [TrainingRow EXCEPT !.codex = "missing"],
     [TrainingRow EXCEPT !.date = "bad"],
     [TrainingRow EXCEPT !.date = "none"],
     [TrainingRow EXCEPT !.run_link = "missing"],
     [TrainingRow EXCEPT !.run_link = "noraceid"],
     [TrainingRow EXCEPT !.runs = <<"header", "badnumber">>]}

\* the rest of an event page: delegates, broadcasters, document items
FullExtras ==
    [td_rows |-> <<[ncols |-> 3, nation |-> TRUE, td_id |-> "header"],
                   [ncols |-> 4, nation |-> TRUE, td_id |-> "td1"]>>,
     broadcasters |-> <<[countries |-> TRUE, link |-> TRUE, name |-> "orf"]>>,
     documents |-> <<[name |-> TRUE, link |-> TRUE, title |-> "Program"],
                     [name |-> TRUE, link |-> FALSE, title |-> "Results"]>>]

ExtrasShapes ==
    {FullExtras,
     [FullExtras EXCEPT !.broadcasters = <<[countries |-> TRUE, link |-> FALSE, name |-> "orf"]>>]}

\* the page that reports "No competition found" in its only row
NoCompetitionPage ==
    [found |-> FALSE, race_rows |-> <<>>, td_rows |-> <<>>, broadcasters |-> <<>>,
     documents |-> <<>>]

EventPages ==
    {[found |-> TRUE, race_rows |-> rr, td_rows |-> x.td_rows,
      broadcasters |-> x.broadcasters, documents |-> x.documents] :
        rr \in UNION {[1..n -> RaceRowShapes] : n \in 0..MaxRaces},
        x \in ExtrasShapes}

\* a calendar row of a category's listing
CalendarRow(id, cat) == [CompleteRow(id, TRUE, FALSE) EXCEPT !.cats[1] = CategoryText[cat]]

\* what a category's calendar can show of the event: another event only;
\* another event and this one; this one in a row that lacks its location
CalendarPages(id, cat) ==
    {<<CalendarRow("55580", cat)>>,
     <<CalendarRow("55580", cat), CalendarRow(id, cat)>>,
     <<[CalendarRow(id, cat) EXCEPT !.location = FALSE]>>}

\* what a failing get_page_content raises: a ClientError after its last
\* attempt, or an exception it does not catch
FetchFailures == {"ClientConnectorError", "UnicodeDecodeError"}

\* results pages the site can serve
ResultReplies ==
    {[kind |-> "error", cls |-> "ClientConnectorError", rows |-> <<>>],
     [kind |-> "body", cls |-> "", rows |-> <<FullRow(12), FullRow(12)>>]}

\* next((c for c in all_competitions if c.event_id == competition_id), None)
FirstMatch(all_competitions, id) ==
    IF \E i \in 1..Len(all_competitions) : all_competitions[i].event_id = id
    THEN all_competitions[
            CHOOSE i \in 1..Len(all_competitions) :
                /\ all_competitions[i].event_id = id
                /\ \A j \in 1..(i - 1) : all_competitions[j].event_id # id]
    ELSE None

\* str(e), line 30
Str(e) ==
    IF e.cls = "HTTPException"
    THEN "404: Competition not found"
    ELSE e.cls

DetailIdle ==
    /\ competition_id = ""
    /\ detail_page = NoCompetitionPage
    /\ listings = <<>>
    /\ detailPc = "idle"
    /\ racePos = 0
    /\ race_date = "unbound"
    /\ races = <<>>
    /\ handled = <<>>
    /\ requests = <<>>
    /\ extras = None
    /\ catPos = 0
    /\ competition = None
    /\ raised = None
    /\ response = None

InitDetail ==
    /\ competition_id = "55579"
    /\ detail_page \in {NoCompetitionPage} \cup EventPages
    /\ listings \in [WC : CalendarPages("55579", "WC"),
                     WSC : CalendarPages("55579", "WSC"),
                     OWG : CalendarPages("55579", "OWG")]
    /\ detailPc = "fetch"
    /\ racePos = 0
    /\ race_date = "unbound"
    /\ races = <<>>
    /\ handled = <<>>
    /\ requests = <<>>
    /\ extras = None
    /\ catPos = 0
    /\ competition = None
    /\ raised = None
    /\ response = None

\* lines 114-120: the event page is fetched and its rows are selected
DetailFetched ==
    /\ detailPc = "fetch"
    /\ requests' = Append(requests, [page |-> "event-details", arg |-> competition_id])
    /\ detailPc' = "races"
    /\ UNCHANGED <<competition_id, detail_page, listings, racePos, race_date, races,
                   handled, extras, catPos, competition, raised, response>>
    /\ UNCHANGED notDetail

\* line 115: get_page_content raises
DetailFetchRaises ==
    /\ detailPc = "fetch"
    /\ requests' = Append(requests, [page |-> "event-details", arg |-> competition_id])
    /\ \E c \in FetchFailures : raised' = Exc(c, 115)
    /\ detailPc' = "raised"
    /\ UNCHANGED <<competition_id, detail_page, listings, racePos, race_date, races,
                   handled, extras, catPos, competition, response>>
    /\ UNCHANGED notDetail

\* lines 122-123: the page's only row says "No competition found"
NoCompetitionFound ==
    /\ detailPc = "races"
    /\ ~detail_page.found
    /\ raised' = HTTPException404(123)
    /\ detailPc' = "raised"
    /\ UNCHANGED <<competition_id, detail_page, listings, racePos, race_date, races,
                   handled, requests, extras, catPos, competition, response>>
    /\ UNCHANGED notDetail

\* lines 125-207: one race row
RaceRow ==
    /\ detailPc = "races"
    /\ detail_page.found
    /\ racePos < Len(detail_page.race_rows)
    /\ \E reply \in ResultReplies :
        LET end == HandleRaceRow(detail_page.race_rows[racePos + 1], race_date, reply)
        IN  /\ handled' = Append(handled, [outcome |-> end.outcome, called |-> end.called,
                                           requested |-> end.requested])
            /\ race_date' = end.race_date
            /\ requests' = IF end.requested
                           THEN Append(requests, [page |-> "results", arg |-> "raceid"])
                           ELSE requests
            /\ races' = IF end.outcome = "appended" THEN Append(races, end.race) ELSE races
            /\ raised' = IF end.outcome = "raised" THEN end.exc ELSE raised
            /\ detailPc' = IF end.outcome = "raised" THEN "raised" ELSE detailPc
    /\ racePos' = racePos + 1
    /\ UNCHANGED <<competition_id, detail_page, listings, extras, catPos, competition,
                   response>>
    /\ UNCHANGED notDetail

\* lines 209-247, once the loop over the race rows has ended
Extras ==
    /\ detailPc = "races"
    /\ detail_page.found
    /\ racePos = Len(detail_page.race_rows)
    /\ LET x == ExtractExtras(detail_page)
       IN  /\ extras' = x.value
           /\ raised' = x.exc
           /\ detailPc' = IF x.kind = "ok" THEN "resolve" ELSE "raised"
    /\ UNCHANGED <<competition_id, detail_page, listings, racePos, race_date, races,
                   handled, requests, catPos, competition, response>>
    /\ UNCHANGED notDetail

\* lines 250-251, 253-256, 257-260: no competition yet, list the next category
ResolveCategory ==
    /\ detailPc = "resolve"
    /\ competition = None
    /\ catPos < Len(Categories)
    /\ requests' = Append(requests, [page |-> "calendar", arg |-> Categories[catPos + 1]])
    /\ competition' =
            FirstMatch(list_competitions(listings[Categories[catPos + 1]]), competition_id)
    /\ catPos' = catPos + 1
    /\ UNCHANGED <<competition_id, detail_page, listings, detailPc, racePos, race_date,
                   races, handled, extras, raised, response>>
    /\ UNCHANGED notDetail

\* lines 250, 255, 259: get_page_content raises inside list_competitions
ResolveFetchRaises ==
    /\ detailPc = "resolve"
    /\ competition = None
    /\ catPos < Len(Categories)
    /\ requests' = Append(requests, [page |-> "calendar", arg |-> Categories[catPos + 1]])
    /\ \E c \in FetchFailures : raised' = Exc(c, 349)
    /\ detailPc' = "raised"
    /\ catPos' = catPos + 1
    /\ UNCHANGED <<competition_id, detail_page, listings, racePos, race_date, races,
                   handled, extras, competition, response>>
    /\ UNCHANGED notDetail

\* lines 261-262: the event is in none of the listings
NotInAnyListing ==
    /\ detailPc = "resolve"
    /\ competition = None
    /\ catPos = Len(Categories)
    /\ raised' = HTTPException404(262)
    /\ detailPc' = "raised"
    /\ UNCHANGED <<competition_id, detail_page, listings, racePos, race_date, races,
                   handled, requests, extras, catPos, competition, response>>
    /\ UNCHANGED notDetail

\* lines 264-270
DetailReturns ==
    /\ detailPc = "resolve"
    /\ competition # None
    /\ detailPc' = "returned"
    /\ UNCHANGED <<competition_id, detail_page, listings, racePos, race_date, races,
                   handled, requests, extras, catPos, competition, raised, response>>
    /\ UNCHANGED notDetail

\* api.py 26-27: the detail is the response
ApiReturns ==
    /\ detailPc = "returned"
    /\ response = None
    /\ response' = [status_code |-> 200, detail |-> "",
                    body |-> [competition |-> competition, races |-> races,
                              extras |-> extras]]
    /\ UNCHANGED <<competition_id, detail_page, listings, detailPc, racePos, race_date,
                   races, handled, requests, extras, catPos, competition, raised>>
    /\ UNCHANGED notDetail

\* api.py 28-30: except Exception catches whatever was raised, the
\* HTTPException of lines 123 and 262 included
ApiRaises ==
    /\ detailPc = "raised"
    /\ response = None
    /\ response' = [status_code |-> 500, detail |-> Str(raised), body |-> None]
    /\ UNCHANGED <<competition_id, detail_page, listings, detailPc, racePos, race_date,
                   races, handled, requests, extras, catPos, competition, raised>>
    /\ UNCHANGED notDetail

NextDetail ==
    \/ DetailFetched
    \/ DetailFetchRaises
    \/ NoCompetitionFound
    \/ RaceRow
    \/ Extras
    \/ ResolveCategory
    \/ ResolveFetchRaises
    \/ NotInAnyListing
    \/ DetailReturns
    \/ ApiReturns
    \/ ApiRaises

(***************************************************************************)
(* Specifications                                                          *)
(***************************************************************************)
InitFetchOnly == InitFetch /\ DiscIdle /\ ListIdle /\ ResIdle /\ DetailIdle
SpecFetch == InitFetchOnly /\ [][NextFetch]_vars

InitDiscOnly == InitDisc /\ FetchIdle /\ ListIdle /\ ResIdle /\ DetailIdle
SpecDisciplines == InitDiscOnly /\ [][NextDisc]_vars

InitListOnly == InitList /\ FetchIdle /\ DiscIdle /\ ResIdle /\ DetailIdle
SpecList == InitListOnly /\ [][NextList]_vars

InitResOnly == InitRes /\ FetchIdle /\ DiscIdle /\ ListIdle /\ DetailIdle
SpecResults == InitResOnly /\ [][NextRes]_vars

InitDetailOnly == InitDetail /\ FetchIdle /\ DiscIdle /\ ListIdle /\ ResIdle
SpecDetail == InitDetailOnly /\ [][NextDetail]_vars

(***************************************************************************)
(* Properties of get_page_content                                          *)
(***************************************************************************)
\* errors a later attempt can cure: a connection that failed, a server that
\* was unavailable
TransientClasses == {"ClientConnectorError", "ClientResponseError 503"}

\* errors no later attempt can cure: a malformed URL, a page that does not
\* exist, a body that cannot be decoded
NonTransientClasses == {"InvalidURL", "ClientResponseError 404", "UnicodeDecodeError"}

FailedTransiently(n) == served[n].kind = "error" /\ served[n].cls \in TransientClasses

\* C1: a fetch whose first two attempts fail with a transient error and whose
\* third succeeds returns the third attempt's body after exactly two backoff
\* delays, 1x then 2x the base delay; a fetch whose three attempts all fail
\* propagates the error; and there is never a fourth attempt.
C1_RetryThreeAttempts ==
    /\ Len(served) <= 3
    /\ (/\ Len(served) = 3
        /\ FailedTransiently(1)
        /\ FailedTransiently(2)
        /\ served[3].kind = "body")
       => (fetchPc = "returned" /\ fetched = served[3] /\ delays = <<1, 2>>)
    /\ (/\ Len(served) = 3
        /\ \A n \in 1..3 : FailedTransiently(n))
       => (fetchPc = "raised" /\ fetched.kind = "error")

\* the third attempt succeeded after two transient failures
C1_Witness ==
    /\ fetchPc = "returned"
    /\ Len(served) = 3
    /\ FailedTransiently(1)
    /\ FailedTransiently(2)
    /\ fetched = served[3]

\* the error of the last permitted attempt is the one propagated
LastAttemptErrorPropagates ==
    (Len(served) = 3 /\ served[3].kind = "error")
        => (fetchPc = "raised" /\ fetched = served[3])

\* attempt n ended the fetch: nothing was tried and no delay was slept after it
FailsAtOnce(n) ==
    /\ Len(served) = n
    /\ Len(delays) = n - 1
    /\ fetchPc = "raised"
    /\ fetched = served[n]

\* C7 as stated: a non-transient error (a malformed URL among them) on any
\* attempt fails the fetch on that attempt, with no retry and no delay; and
\* the error of the last permitted attempt is the one propagated.
C7_NonTransientFailsAtOnce ==
    /\ \A n \in 1..Len(served) :
        (served[n].kind = "error" /\ served[n].cls \in NonTransientClasses)
            => FailsAtOnce(n)
    /\ LastAttemptErrorPropagates

\* C7 as amended: an error that is not an aiohttp.ClientError fails the fetch
\* on the attempt it occurs on, with no retry and no delay; every ClientError
\* before the last attempt, a malformed URL's InvalidURL included, is retried
\* after a delay; and the error of the last permitted attempt is the one
\* propagated.
C7_NonClientErrorFailsAtOnce ==
    /\ \A n \in 1..Len(served) :
        (served[n].kind = "error" /\ served[n].cls \in OtherErrorClasses)
            => FailsAtOnce(n)
    /\ \A n \in 1..Len(served) :
        (served[n].kind = "error" /\ served[n].cls \in ClientErrorClasses /\ n < 3)
            => (Len(delays) >= n /\ ~(fetchPc = "raised" /\ fetched = served[n]))
    /\ LastAttemptErrorPropagates

\* the second attempt raised an error outside the ClientError hierarchy
C7_Witness ==
    /\ Len(served) = 2
    /\ served[2].kind = "error"
    /\ served[2].cls \in OtherErrorClasses
    /\ fetchPc = "raised"

(***************************************************************************)
(* Properties of parse_disciplines                                         *)
(***************************************************************************)
\* the members for the tokens of a set of vocabulary positions, in
\* vocabulary order
InVocabularyOrder(S) ==
    LET Pick(k) == k \in S
        names == <<"SLALOM", "GIANT_SLALOM", "SUPER_G", "DOWNHILL">>
        ks == SelectSeq(<<1, 2, 3, 4>>, Pick)
    IN  [i \in 1..Len(ks) |-> names[ks[i]]]

TokensOf(ps) == {ps.tokens[i] : i \in 1..Len(ps.tokens)}

\* a separator that separates: not empty, and without a vocabulary letter
SeparatesTokens(sep) ==
    /\ sep # <<>>
    /\ \A i \in 1..Len(sep) : sep[i] \notin VocabularyLetters

RowIsComplete(row) ==
    /\ row.id # ""
    /\ row.link = "both"
    /\ row.location
    /\ row.country
    /\ Len(row.cats) >= 2
    /\ row.gender.present
    /\ row.status.present
    /\ Len(row.status.items) >= 4

\* the complete rows among those the loop has handled, in page order
HandledCompleteRows == SelectSeq(SubSeq(page, 1, rowPos), RowIsComplete)

\* C5: the listing never fails because of a row: what it returns is exactly
\* the subsequence of the rows that parse, in page order, each incomplete
\* row left out without touching the others.
C5_ListIsCompleteRowsInOrder ==
    /\ listPc = "raised" => rowPos = 0
    /\ listPc \in {"rows", "returned"} =>
        /\ Len(competitions) = Len(HandledCompleteRows)
        /\ \A k \in 1..Len(competitions) :
            /\ competitions[k].event_id = HandledCompleteRows[k].id
            /\ competitions[k].is_live = HandledCompleteRows[k].live
            /\ competitions[k].cancelled = HandledCompleteRows[k].cancelled
    /\ listPc = "returned" => rowPos = Len(page)

\* a complete row, then an incomplete one, and the listing returned the first
C5_Witness ==
    /\ listPc = "returned"
    /\ Len(page) = 2
    /\ RowIsComplete(page[1])
    /\ ~RowIsComplete(page[2])
    /\ Len(competitions) = 1

\* the gender the four marker combinations stand for
GenderTable(men, women) ==
    CASE men /\ ~women -> "MEN"
      [] ~men /\ women -> "WOMEN"
      [] men /\ women -> "BOTH"
      [] ~men /\ ~women -> "WOMEN"

\* C9: men marker only yields MEN, women marker only WOMEN, both markers
\* BOTH, and neither marker WOMEN.
C9_GenderOfMarkers ==
    \A k \in 1..Len(competitions) :
        k <= Len(HandledCompleteRows) =>
            competitions[k].gender =
                GenderTable(HandledCompleteRows[k].gender.men,
                            HandledCompleteRows[k].gender.women)

\* a row whose gender fragment holds neither marker was listed as WOMEN
C9_Witness ==
    \E k \in 1..Len(competitions) :
        /\ k <= Len(HandledCompleteRows)
        /\ ~HandledCompleteRows[k].gender.men
        /\ ~HandledCompleteRows[k].gender.women
        /\ competitions[k].gender = "WOMEN"

(***************************************************************************)
(* Properties of scrape_competition_detail and get_competition             *)
(***************************************************************************)
\* the category's calendar shows the event in a row that parses
ListingHas(cat) ==
    \E i \in 1..Len(listings[cat]) :
        /\ RowIsComplete(listings[cat][i])
        /\ listings[cat][i].id = competition_id

IsCalendarRequest(r) == r.page = "calendar"

\* the category codes the calendars were asked for, in order
CategoriesAsked ==
    LET rs == SelectSeq(requests, IsCalendarRequest)
    IN  [i \in 1..Len(rs) |-> rs[i].arg]

ResolutionOrder == <<"WC", "WSC", "OWG">>

\* C2: the base competition is looked up in "WC" first, in "WSC" only if the
\* WC listing lacks the event, in "OWG" only if the WSC listing lacks it too;
\* the first listing that has the event supplies the competition field and
\* no later category is fetched; if all three lack it the operation fails
\* with not-found.
C2_FirstListingWins ==
    /\ Len(CategoriesAsked) <= 3
    /\ \A i \in 1..Len(CategoriesAsked) : CategoriesAsked[i] = ResolutionOrder[i]
    /\ Len(CategoriesAsked) >= 2 => ~ListingHas("WC")
    /\ Len(CategoriesAsked) >= 3 => ~ListingHas("WSC")
    /\ detailPc = "returned" =>
        /\ Len(CategoriesAsked) >= 1
        /\ ListingHas(ResolutionOrder[Len(CategoriesAsked)])
        /\ competition # None
        /\ competition.event_id = competition_id
        /\ competition.category = CategoryText[ResolutionOrder[Len(CategoriesAsked)]]
    /\ (detailPc = "resolve" /\ catPos = 3 /\ \A c \in {"WC", "WSC", "OWG"} : ~ListingHas(c))
        => (competition = None /\ ~ENABLED DetailReturns)
    /\ (detailPc = "raised" /\ raised.line = 262) =>
        /\ raised.status_code = 404
        /\ CategoriesAsked = ResolutionOrder
        /\ \A c \in {"WC", "WSC", "OWG"} : ~ListingHas(c)

\* absent from the WC listing, found in the WSC listing, OWG never asked for
C2_Witness ==
    /\ detailPc = "returned"
    /\ CategoriesAsked = <<"WC", "WSC">>
    /\ competition.category = <<"W", "S", "C">>

\* scrape_competition_detail ended in one of its two not-found outcomes
NotFoundOutcome ==
    /\ detailPc = "raised"
    /\ raised.cls = "HTTPException"
    /\ raised.status_code = 404

\* C3: every not-found outcome of the detail lookup reaches the HTTP caller
\* as 404, every other failure as 500 with the error's message as detail.
C3_NotFoundReaches404 ==
    (detailPc = "raised" /\ response # None) =>
        IF NotFoundOutcome
        THEN response.status_code = 404
        ELSE response.status_code = 500 /\ response.detail = raised.cls

\* the races appended among the first k rows handled
AppendedUpTo(k) == Cardinality({j \in 1..k : handled[j].outcome = "appended"})

IsTeamLabel(label) == label # <<>> /\ label[1] = "Team"

\* the row has the fragments lines 127-190 read
RaceRowIsWellFormed(row) ==
    /\ row.codex # "missing"
    /\ row.date \in {"datetime", "date"}
    /\ row.run_link = "raceid"
    /\ \A i \in 1..Len(row.runs) : row.runs[i] # "badnumber"

\* C4: for a training race the result parser is never invoked and the
\* results are null; for any other race it is invoked exactly once, except
\* that for a team event no results page is fetched and the results are null.
C4_ResultParserPerRace ==
    \A k \in 1..Len(handled) :
        LET row == detail_page.race_rows[k]
            h == handled[k]
        IN  RaceRowIsWellFormed(row) =>
                /\ IsTrainingLabel(row.label) =>
                    /\ ~h.called
                    /\ h.outcome = "appended"
                    /\ races[AppendedUpTo(k)].results = None
                /\ IsTeamLabel(row.label) =>
                    /\ ~h.requested
                    /\ h.outcome = "appended"
                    /\ races[AppendedUpTo(k)].results = None
                /\ (row.label = <<"Slalom">>) => h.called

RaceLoopLines == 125..207

ResultParserLines == 272..337

\* C6: a parse failure confined to one race row skips only that race: the
\* operation is not ended by it, and returns the other races together with
\* the delegates, broadcasters and documents.
C6_RaceFailureSkipsOnlyThatRace ==
    /\ detailPc = "raised" => raised.line \notin (RaceLoopLines \cup ResultParserLines)
    /\ detailPc = "returned" =>
        /\ extras # None
        /\ racePos = Len(detail_page.race_rows)
        /\ Len(races) = AppendedUpTo(racePos)

(***************************************************************************)
(* Properties of scrape_results                                            *)
(***************************************************************************)
\* a row with a numeric rank, an athlete id, a name, a nation and points
ResultRowIsWellFormed(row) ==
    /\ row.rank # 0
    /\ row.athlete
    /\ row.name
    /\ row.nation
    /\ row.fis # "text"

RaceRowLacksRaceId(row) ==
    /\ row.codex # "missing"
    /\ row.date \in {"datetime", "date"}
    /\ row.run_link = "noraceid"
    /\ \A i \in 1..Len(row.runs) : row.runs[i] # "badnumber"
    /\ MatchDiscipline(row.label) # ""

\* C11: a race row whose link carries no raceid parameter is recorded with
\* race_id null, no run is extracted for it, the result parser is not invoked
\* for it and no results page is fetched, and the detail operation is not
\* ended by it.
C11_NoRaceIdRaceRecorded ==
    \A k \in 1..Len(handled) :
        LET row == detail_page.race_rows[k]
            h == handled[k]
        IN  RaceRowLacksRaceId(row) =>
                /\ h.outcome = "appended"
                /\ ~h.called
                /\ ~h.requested
                /\ races[AppendedUpTo(k)].race_id = "None"
                /\ races[AppendedUpTo(k)].runs = <<>>

====
